---- MODULE Spec2Model ----
(***************************************************************************)
(* Model of NBAAnalysis.py, the Streamlit script that filters a player's   *)
(* game log by date range and statistic, asks for a threshold, and renders *)
(* a pie chart (value distribution) and a time-series bar chart, each      *)
(* coloured by comparison with the threshold.                              *)
(*                                                                         *)
(* One run of the script is the chain of actions                           *)
(*   SelectInputs -> CheckDates -> Filter -> ThresholdInput -> PieChart    *)
(*   -> TimeSeries, and Rerun models Streamlit re-executing the script on  *)
(* the next interaction.                                                   *)
(*                                                                         *)
(* Numbers: the cells of the selected stat column are CSV text, either a   *)
(* whole number ("0", "1", ...) or a marker such as "DNP".  Every float of *)
(* the script (stat value after pd.to_numeric, median, threshold, widget   *)
(* bounds) is kept in fixed point as a count of halves, the step of the    *)
(* threshold widget: 1.5 is stored as 3.                                   *)
(***************************************************************************)
EXTENDS Integers, Sequences, FiniteSets

\* ---- bounds of the model ------------------------------------------------
\* rows of a mixed game log (any player, any date)
MaxRows == 2
\* rows of a game log that holds one player's games of one day
MaxGames == 4
\* dates are 1 .. MaxDate
MaxDate == 2
\* numeric cells of a one-day log are the whole numbers 0 .. MaxVal
MaxVal == 2
\* largest threshold the user types, in halves
MaxThreshold == 5

\* ---- program constants --------------------------------------------------
\* 100.0 in halves: the upper bound of the threshold widget when max_val <= 0
FallbackMax == 200
\* 0.0: min_value of the threshold widget
MinValue == 0
\* 0.0: default threshold of an empty selection
FallbackDefault == 0

\* ---- the input domain ---------------------------------------------------
Players == {"LeBron", "lebron"}
Dates == 1 .. MaxDate
Digits == <<"0", "1", "2", "3", "4", "5", "6", "7", "8", "9">>
Cells == {Digits[n + 1] : n \in 0 .. MaxVal} \cup {"DNP"}
\* a mixed log tells numeric cells from the marker and one value from another
MixedCells == {"0", "1", "DNP"}
Rows == [Player : Players, Date : Dates, stat : MixedCells]
OneDayRows == [Player : {"LeBron"}, Date : {1}, stat : Cells]
SeqsUpTo(S, n) == UNION {[1 .. k -> S] : k \in 1 .. n}

VARIABLES
    nba_logs_df,        \* the loaded game log: a sequence of Rows
    pc,                 \* position of the current run of the script
    ran,                \* the steps the current run has executed
    error,              \* st.error was called in this run
    selected_player, start_date, end_date,
    player_df,          \* rows of the player in range, stat numeric
    min_value, max_value, default_thresh, threshold,
    stat_counts,        \* value_counts().sort_index(): <<[val, count], ...>>
    pie,                \* "none" | "nodata" | "drawn"
    colors, color_categories, total_entries, percentages,
    data,               \* player_df[['Date', stat]]
    ts,                 \* "none" | "nodata" | "drawn"
    bar_colors, count_at_or_above, total_games,
    divisors            \* denominators of the divisions this run evaluated

vars == <<nba_logs_df, pc, ran, error, selected_player, start_date, end_date,
          player_df, min_value, max_value, default_thresh, threshold,
          stat_counts, pie, colors, color_categories, total_entries,
          percentages, data, ts, bar_colors, count_at_or_above, total_games,
          divisors>>

\* ---- helpers --------------------------------------------------------------
Min(a, b) == IF a < b THEN a ELSE b
SetMax(S) == CHOOSE x \in S : \A y \in S : y <= x
SetMin(S) == CHOOSE x \in S : \A y \in S : x <= y
Range(s) == {s[i] : i \in DOMAIN s}
CountIn(s, x) == Cardinality({i \in DOMAIN s : s[i] = x})

NaN == [isna |-> TRUE, val |-> 0]
IsNumeric(cell) == \E n \in 0 .. 9 : Digits[n + 1] = cell
\* pd.to_numeric(errors='coerce') of one cell
ToNumeric(cell) ==
    IF IsNumeric(cell)
    THEN [isna |-> FALSE, val |-> 2 * (CHOOSE n \in 0 .. 9 : Digits[n + 1] = cell)]
    ELSE NaN

\* ---- the inputs of a run ---------------------------------------------------
player_list == {nba_logs_df[i].Player : i \in DOMAIN nba_logs_df}
min_date == SetMin({nba_logs_df[i].Date : i \in DOMAIN nba_logs_df})
max_date == SetMax({nba_logs_df[i].Date : i \in DOMAIN nba_logs_df})

NoCategories == [green |-> 0, red |-> 0, gray |-> 0]

RunInit ==
    /\ pc = "start"
    /\ ran = {}
    /\ error = FALSE
    /\ selected_player = "" /\ start_date = 0 /\ end_date = 0
    /\ player_df = <<>>
    /\ min_value = 0 /\ max_value = 0 /\ default_thresh = 0 /\ threshold = 0
    /\ stat_counts = <<>>
    /\ pie = "none"
    /\ colors = <<>> /\ color_categories = NoCategories /\ total_entries = 0
    /\ percentages = <<>>
    /\ data = <<>>
    /\ ts = "none"
    /\ bar_colors = <<>> /\ count_at_or_above = 0 /\ total_games = 0
    /\ divisors = {}

Init ==
    /\ nba_logs_df \in SeqsUpTo(Rows, MaxRows) \cup SeqsUpTo(OneDayRows, MaxGames)
    /\ RunInit

SelectInputs ==
    /\ pc = "start"
    /\ selected_player' \in player_list
    /\ start_date' \in min_date .. max_date
    /\ end_date' \in min_date .. max_date
    /\ pc' = "check"
    /\ ran' = ran \cup {"select"}
    /\ UNCHANGED <<nba_logs_df, error, player_df, min_value, max_value,
                   default_thresh, threshold, stat_counts, pie, colors,
                   color_categories, total_entries, percentages, data, ts,
                   bar_colors, count_at_or_above, total_games, divisors>>

\* faulty variant of CheckDates: the error is shown but st.stop() is not called
CheckDatesNoStop ==
    /\ pc = "check"
    /\ error' = (start_date > end_date)
    /\ pc' = "filter"
    /\ ran' = ran \cup {"check"}
    /\ UNCHANGED <<nba_logs_df, selected_player, start_date, end_date,
                   player_df, min_value, max_value, default_thresh, threshold,
                   stat_counts, pie, colors, color_categories, total_entries,
                   percentages, data, ts, bar_colors, count_at_or_above,
                   total_games, divisors>>

CheckDates ==
    /\ pc = "check"
    /\ IF start_date > end_date
       THEN /\ error' = TRUE
            /\ pc' = "stopped"
       ELSE /\ error' = FALSE
            /\ pc' = "filter"
    /\ ran' = ran \cup {"check"}
    /\ UNCHANGED <<nba_logs_df, selected_player, start_date, end_date,
                   player_df, min_value, max_value, default_thresh, threshold,
                   stat_counts, pie, colors, color_categories, total_entries,
                   percentages, data, ts, bar_colors, count_at_or_above,
                   total_games, divisors>>

\* faulty variant of DateMask: the end of the range is taken exclusive
DateMaskEndExclusive(row) == row.Date >= start_date /\ row.Date < end_date
\* filtered_df: the boolean mask on Date keeps the rows in their order
DateMask(row) == row.Date >= start_date /\ row.Date <= end_date
PlayerMask(row) == row.Player = selected_player
\* the stat column after to_numeric; dropna(subset=[selected_stat]) follows
Coerce(df) == [i \in DOMAIN df |-> [Player |-> df[i].Player, Date |-> df[i].Date,
                                    stat |-> ToNumeric(df[i].stat)]]
NotNa(row) == ~row.stat.isna
Unwrap(df) == [i \in DOMAIN df |-> [Player |-> df[i].Player, Date |-> df[i].Date,
                                    stat |-> df[i].stat.val]]
FilterRows(df) ==
    Unwrap(SelectSeq(Coerce(SelectSeq(SelectSeq(df, DateMask), PlayerMask)), NotNa))

Filter ==
    /\ pc = "filter"
    /\ player_df' = FilterRows(nba_logs_df)
    /\ pc' = "threshold"
    /\ ran' = ran \cup {"filter"}
    /\ UNCHANGED <<nba_logs_df, error, selected_player, start_date, end_date,
                   min_value, max_value, default_thresh, threshold,
                   stat_counts, pie, colors, color_categories, total_entries,
                   percentages, data, ts, bar_colors, count_at_or_above,
                   total_games, divisors>>

\* ---- threshold widget (lines 89-99) -------------------------------------
StatValues(df) == [i \in DOMAIN df |-> df[i].stat]

RECURSIVE SetToSortedSeq(_)
SetToSortedSeq(S) ==
    IF S = {} THEN <<>>
    ELSE LET m == SetMin(S) IN <<m>> \o SetToSortedSeq(S \ {m})

RECURSIVE SortValues(_)
SortValues(vals) ==
    IF vals = <<>> THEN <<>>
    ELSE LET m == SetMin(Range(vals))
             k == CHOOSE i \in DOMAIN vals : vals[i] = m
             rest == [j \in 1 .. Len(vals) - 1 |-> IF j < k THEN vals[j] ELSE vals[j + 1]]
         IN <<m>> \o SortValues(rest)

\* faulty variant of Median: an even count takes the lower middle value
MedianLowerMiddle(vals) == SortValues(vals)[(Len(vals) + 1) \div 2]
\* Series.median(): the middle value, or the mean of the two middle values
Median(vals) ==
    LET sorted == SortValues(vals)
        n == Len(vals)
    IN IF n % 2 = 1
       THEN sorted[(n + 1) \div 2]
       ELSE (sorted[n \div 2] + sorted[n \div 2 + 1]) \div 2

max_val(df) == IF df # <<>> THEN SetMax(Range(StatValues(df))) ELSE FallbackMax
DefaultThresh(df) == IF df # <<>> THEN Median(StatValues(df)) ELSE FallbackDefault
\* max_value=float(max_val) if max_val > 0 else 100.0
MaxValueBound(m) == IF m > 0 THEN m ELSE FallbackMax

ThresholdInput ==
    /\ pc = "threshold"
    /\ min_value' = MinValue
    /\ max_value' = MaxValueBound(max_val(player_df))
    /\ default_thresh' = DefaultThresh(player_df)
    \* the widget shows the default and accepts any value within its bounds
    /\ threshold' \in {default_thresh'}
                      \cup (min_value' .. Min(max_value', MaxThreshold))
    /\ pc' = "pie"
    /\ ran' = ran \cup {"threshold"}
    /\ UNCHANGED <<nba_logs_df, error, selected_player, start_date, end_date,
                   player_df, stat_counts, pie, colors, color_categories,
                   total_entries, percentages, data, ts, bar_colors,
                   count_at_or_above, total_games, divisors>>

\* ---- pie chart (lines 101-153) ------------------------------------------
\* faulty variant of ValueCounts: unique() in place of value_counts()
ValueCountsUnique(vals) ==
    LET index == SetToSortedSeq(Range(vals))
    IN [i \in DOMAIN index |-> [val |-> index[i], count |-> 1]]
\* Series.value_counts().sort_index()
ValueCounts(vals) ==
    LET index == SetToSortedSeq(Range(vals))
    IN [i \in DOMAIN index |-> [val |-> index[i], count |-> CountIn(vals, index[i])]]

\* faulty variant of PieStep: a wedge adds 1, not its count, to its class
PieStepAddsOne(acc, val, count, thr) ==
    LET c == IF val > thr THEN "green" ELSE IF val < thr THEN "red" ELSE "gray"
    IN [colors |-> Append(acc.colors, c), cats |-> [acc.cats EXCEPT ![c] = @ + 1]]
\* faulty variant of PieStep: the two comparisons are exchanged
PieStepSwapped(acc, val, count, thr) ==
    LET c == IF val < thr THEN "green" ELSE IF val > thr THEN "red" ELSE "gray"
    IN [colors |-> Append(acc.colors, c), cats |-> [acc.cats EXCEPT ![c] = @ + count]]
\* one iteration of the loop of lines 113-122
PieStep(acc, val, count, thr) ==
    IF val > thr
    THEN [colors |-> Append(acc.colors, "green"),
          cats |-> [acc.cats EXCEPT !.green = @ + count]]
    ELSE IF val < thr
    THEN [colors |-> Append(acc.colors, "red"),
          cats |-> [acc.cats EXCEPT !.red = @ + count]]
    ELSE [colors |-> Append(acc.colors, "gray"),
          cats |-> [acc.cats EXCEPT !.gray = @ + count]]

RECURSIVE PieLoop(_, _, _, _)
PieLoop(sc, thr, i, acc) ==
    IF i > Len(sc) THEN acc
    ELSE PieLoop(sc, thr, i + 1, PieStep(acc, sc[i].val, sc[i].count, thr))

\* faulty variant of PieNoData: the guard is missing
PieNoDataNever(sc) == FALSE
\* stat_counts.empty
PieNoData(sc) == sc = <<>>

\* f"{count / total:.2%}", as hundredths of a percent
Percentage(count, total) == (2 * 10000 * count + total) \div (2 * total)

PieChart ==
    /\ pc = "pie"
    /\ stat_counts' = ValueCounts(StatValues(player_df))
    /\ IF PieNoData(stat_counts')
       THEN /\ pie' = "nodata"
            /\ UNCHANGED <<colors, color_categories, total_entries, percentages,
                           divisors>>
       ELSE LET r == PieLoop(stat_counts', threshold, 1,
                             [colors |-> <<>>, cats |-> NoCategories])
                total == r.cats.green + r.cats.red + r.cats.gray
            IN /\ pie' = "drawn"
               /\ colors' = r.colors
               /\ color_categories' = r.cats
               /\ total_entries' = total
               /\ divisors' = divisors \cup {total}
               \* a zero total raises ZeroDivisionError: no percentage exists
               /\ percentages' = IF total = 0 THEN <<>>
                                 ELSE <<Percentage(r.cats.green, total),
                                        Percentage(r.cats.red, total),
                                        Percentage(r.cats.gray, total)>>
    /\ pc' = "timeseries"
    /\ ran' = ran \cup {"pie"}
    /\ UNCHANGED <<nba_logs_df, error, selected_player, start_date, end_date,
                   player_df, min_value, max_value, default_thresh, threshold,
                   data, ts, bar_colors, count_at_or_above, total_games>>

\* ---- time-series chart (lines 155-187) -----------------------------------
\* faulty variant of DateStat: the rows are handed over last first
DateStatReversed(df) ==
    [i \in DOMAIN df |-> [Date |-> df[Len(df) + 1 - i].Date,
                          stat |-> df[Len(df) + 1 - i].stat]]
\* player_df[['Date', selected_stat]].dropna(): neither column holds a NaN
DateStat(df) == [i \in DOMAIN df |-> [Date |-> df[i].Date, stat |-> df[i].stat]]

\* faulty variant of BarStep: a tie is coloured green
BarStepTieGreen(acc, val, thr) ==
    IF val >= thr
    THEN [colors |-> Append(acc.colors, "green"), count |-> acc.count + 1]
    ELSE [colors |-> Append(acc.colors, "red"), count |-> acc.count]
\* faulty variant of BarStep: a tie is not counted
BarStepTieNotCounted(acc, val, thr) ==
    IF val > thr
    THEN [colors |-> Append(acc.colors, "green"), count |-> acc.count + 1]
    ELSE IF val < thr
    THEN [colors |-> Append(acc.colors, "red"), count |-> acc.count]
    ELSE [colors |-> Append(acc.colors, "gray"), count |-> acc.count]
\* one iteration of the loop of lines 167-175
BarStep(acc, val, thr) ==
    IF val > thr
    THEN [colors |-> Append(acc.colors, "green"), count |-> acc.count + 1]
    ELSE IF val < thr
    THEN [colors |-> Append(acc.colors, "red"), count |-> acc.count]
    ELSE [colors |-> Append(acc.colors, "gray"), count |-> acc.count + 1]

RECURSIVE BarLoop(_, _, _, _)
BarLoop(d, thr, i, acc) ==
    IF i > Len(d) THEN acc
    ELSE BarLoop(d, thr, i + 1, BarStep(acc, d[i].stat, thr))

TimeSeries ==
    /\ pc = "timeseries"
    /\ data' = DateStat(player_df)
    /\ IF data' = <<>>
       THEN /\ ts' = "nodata"
            /\ UNCHANGED <<bar_colors, count_at_or_above, total_games, divisors>>
       ELSE LET r == BarLoop(data', threshold, 1, [colors |-> <<>>, count |-> 0])
            IN /\ ts' = "drawn"
               /\ bar_colors' = r.colors
               /\ count_at_or_above' = r.count
               /\ total_games' = Len(data')
               /\ divisors' = divisors \cup {Len(data')}
    /\ pc' = "done"
    /\ ran' = ran \cup {"timeseries"}
    /\ UNCHANGED <<nba_logs_df, error, selected_player, start_date, end_date,
                   player_df, min_value, max_value, default_thresh, threshold,
                   stat_counts, pie, colors, color_categories, total_entries,
                   percentages>>

\* ---- the next interaction re-executes the script -------------------------
Rerun ==
    /\ pc \in {"done", "stopped"}
    /\ pc' = "start"
    /\ ran' = {}
    /\ error' = FALSE
    /\ selected_player' = "" /\ start_date' = 0 /\ end_date' = 0
    /\ player_df' = <<>>
    /\ min_value' = 0 /\ max_value' = 0 /\ default_thresh' = 0 /\ threshold' = 0
    /\ stat_counts' = <<>>
    /\ pie' = "none"
    /\ colors' = <<>> /\ color_categories' = NoCategories /\ total_entries' = 0
    /\ percentages' = <<>>
    /\ data' = <<>>
    /\ ts' = "none"
    /\ bar_colors' = <<>> /\ count_at_or_above' = 0 /\ total_games' = 0
    /\ divisors' = {}
    /\ UNCHANGED nba_logs_df

Next ==
    \/ SelectInputs
    \/ CheckDates
    \/ Filter
    \/ ThresholdInput
    \/ PieChart
    \/ TimeSeries
    \/ Rerun

Spec == Init /\ [][Next]_vars

\* ==== properties ===========================================================
Drawn == pc = "done" /\ pie = "drawn" /\ ts = "drawn"
Filtered == pc \in {"threshold", "pie", "timeseries", "done"}
Offered == pc \in {"pie", "timeseries", "done"}
Vals == StatValues(player_df)
\* rows of the filtered selection, counted one by one
RowsWhere(P(_)) == Cardinality({i \in DOMAIN player_df : P(player_df[i].stat)})
IsAbove(v) == v > threshold
IsBelow(v) == v < threshold
IsAt(v) == v = threshold
IsAtOrAbove(v) == v >= threshold
Label(v) == IF IsAbove(v) THEN "green" ELSE IF IsBelow(v) THEN "red" ELSE "gray"

\* C1: once both charts are computed, the pie chart has one wedge per distinct
\* value, and its count of each class (green, red, gray) equals the number of
\* bars the time-series loop gave that colour; green + gray equals
\* count_at_or_above.
C1_ModesAgree ==
    (pc = "done" /\ pie = "drawn") =>
        /\ Len(colors) = Cardinality(Range(Vals))
        /\ color_categories.green = CountIn(bar_colors, "green")
        /\ color_categories.red = CountIn(bar_colors, "red")
        /\ color_categories.gray = CountIn(bar_colors, "gray")
        /\ color_categories.green + color_categories.gray = count_at_or_above

\* both charts drawn, a repeated value, and all three classes populated
C1_Witness ==
    /\ Drawn
    /\ Len(stat_counts) < Len(data)
    /\ color_categories.green > 0
    /\ color_categories.red > 0
    /\ color_categories.gray > 0

\* C2: when the pie chart is drawn, green + red + gray = total_entries is the
\* number of filtered rows (not the number of distinct values); the values
\* 0, 0, 1, 2 with threshold 0 give gray 2, green 2, red 0 of 4.
C2_CountsSumToRows ==
    pie = "drawn" =>
        /\ total_entries = Len(player_df)
        /\ color_categories.green + color_categories.red
               + color_categories.gray = total_entries
        /\ (Vals = <<0, 0, 2, 4>> /\ threshold = 0) =>
               /\ color_categories = [green |-> 2, red |-> 0, gray |-> 2]
               /\ total_entries = 4

\* the scenario of the claim on the scale of the model: values 0, 0, 1, 2
\* against threshold 0, as 10, 10, 15, 20 against 10
C2_Witness ==
    /\ pie = "drawn"
    /\ Vals = <<0, 0, 2, 4>>
    /\ threshold = 0
    /\ Len(stat_counts) = 3
    /\ total_entries = 4

\* C3: every value gets exactly one label, green iff v > t, red iff v < t,
\* gray iff v = t; the labels are as many as the inputs and in their order
\* (bars for rows, wedges for distinct values); the per-row counts of the three
\* labels sum to total_games.
C3_Partition ==
    /\ ts = "drawn" =>
        /\ Len(bar_colors) = Len(data)
        /\ \A i \in DOMAIN data :
               /\ bar_colors[i] \in {"green", "red", "gray"}
               /\ bar_colors[i] = "green" <=> data[i].stat > threshold
               /\ bar_colors[i] = "red" <=> data[i].stat < threshold
               /\ bar_colors[i] = "gray" <=> data[i].stat = threshold
        /\ CountIn(bar_colors, "green") + CountIn(bar_colors, "red")
               + CountIn(bar_colors, "gray") = total_games
        /\ total_games = Len(player_df)
    /\ pie = "drawn" =>
        /\ Len(colors) = Len(stat_counts)
        /\ \A i \in DOMAIN stat_counts :
               /\ colors[i] \in {"green", "red", "gray"}
               /\ colors[i] = "green" <=> stat_counts[i].val > threshold
               /\ colors[i] = "red" <=> stat_counts[i].val < threshold
               /\ colors[i] = "gray" <=> stat_counts[i].val = threshold

\* bars of all three colours
C3_Witness ==
    /\ Drawn
    /\ {"green", "red", "gray"} \subseteq Range(bar_colors)

\* C4: count_at_or_above is the number of filtered rows with value >= threshold,
\* total_games the number of filtered rows, 0 <= count_at_or_above <=
\* total_games, and count_at_or_above = 0 when the threshold exceeds every value.
C4_QualifyingCount ==
    ts = "drawn" =>
        /\ count_at_or_above = RowsWhere(IsAtOrAbove)
        /\ total_games = Len(player_df)
        /\ 0 <= count_at_or_above
        /\ count_at_or_above <= total_games
        /\ (\A i \in DOMAIN player_df : threshold > player_df[i].stat)
               => count_at_or_above = 0

\* a threshold above every one of several observed values
C4_Witness ==
    /\ ts = "drawn"
    /\ total_games >= 2
    /\ \A i \in DOMAIN player_df : threshold > player_df[i].stat
    /\ count_at_or_above = 0

\* C5: no division has a zero denominator; with an empty filtered set both
\* views report "no data" and no division is evaluated; the pie view reports
\* "no data" iff the time-series view does.
C5_NoDataGuard ==
    /\ 0 \notin divisors
    /\ (pc \in {"timeseries", "done"} /\ player_df = <<>>) =>
           /\ pie = "nodata"
           /\ divisors = {}
    /\ pc = "done" =>
           /\ player_df = <<>> => ts = "nodata"
           /\ pie = "nodata" <=> ts = "nodata"
           /\ pie = "nodata" => player_df = <<>>

\* a finished run over an empty selection of a non-empty log
C5_Witness ==
    /\ pc = "done"
    /\ player_df = <<>>
    /\ pie = "nodata"
    /\ ts = "nodata"

\* C6: with start_date > end_date the run ends stopped with the error shown,
\* having executed nothing after the date check; filtering, the threshold
\* input and the charts run only with start_date <= end_date.
C6_DateErrorStops ==
    /\ (start_date > end_date /\ pc \notin {"start", "check"}) =>
           /\ pc = "stopped"
           /\ error
           /\ ran = {"select", "check"}
           /\ player_df = <<>> /\ pie = "none" /\ ts = "none"
           /\ divisors = {}
    /\ ran \cap {"filter", "threshold", "pie", "timeseries"} # {} =>
           /\ start_date <= end_date
           /\ ~error
    /\ pc = "stopped" <=> error

C6_Witness ==
    /\ pc = "stopped"
    /\ start_date > end_date
    /\ error

\* row i of the log belongs to the selection
Selected(i) ==
    /\ nba_logs_df[i].Player = selected_player
    /\ start_date <= nba_logs_df[i].Date
    /\ nba_logs_df[i].Date <= end_date
    /\ nba_logs_df[i].stat # "DNP"

\* C7: player_df holds exactly the rows of the log of the selected player
\* (the name compared as written) with start_date <= Date <= end_date and a
\* numeric cell: every such row once per occurrence, and no other row.
C7_FilterExact ==
    Filtered =>
        /\ Len(player_df) = Cardinality({i \in DOMAIN nba_logs_df : Selected(i)})
        /\ \A j \in DOMAIN player_df : player_df[j].Player = selected_player
        /\ \A d \in Dates : \A n \in 0 .. 9 :
               Cardinality({j \in DOMAIN player_df :
                               player_df[j].Date = d /\ player_df[j].stat = 2 * n})
               = Cardinality({i \in DOMAIN nba_logs_df :
                               /\ Selected(i)
                               /\ nba_logs_df[i].Date = d
                               /\ nba_logs_df[i].stat = Digits[n + 1]})

\* a row kept on the last day of the range, next to a row of the other
\* spelling of the name that is left out
C7_Witness ==
    /\ Filtered
    /\ \E j \in DOMAIN player_df : player_df[j].Date = end_date
    /\ \E i \in DOMAIN nba_logs_df :
           /\ nba_logs_df[i].Player # selected_player
           /\ nba_logs_df[i].stat # "DNP"
           /\ start_date <= nba_logs_df[i].Date
           /\ nba_logs_df[i].Date <= end_date

SortedByDate(s) == \A i, j \in DOMAIN s : i < j => s[i].Date <= s[j].Date
\* the k-th selected row of the log, in the order of the log
NthSelected(k) ==
    CHOOSE i \in DOMAIN nba_logs_df :
        /\ Selected(i)
        /\ Cardinality({h \in 1 .. i - 1 : Selected(h)}) = k - 1

\* C8 as stated: the (date, value) pairs handed to the time-series view are in
\* order of non-decreasing date, whatever the order of the log.
C8_SortedByDate == ts = "drawn" => SortedByDate(data)

\* C8 amended: the pairs handed to the time-series view are the selected rows
\* in the order of the log; they are in order of non-decreasing date whenever
\* the rows of the log are.
C8_KeepsLogOrder ==
    pc = "done" =>
        /\ Len(data) = Cardinality({i \in DOMAIN nba_logs_df : Selected(i)})
        /\ \A k \in DOMAIN data :
               /\ data[k].Date = nba_logs_df[NthSelected(k)].Date
               /\ \E n \in 0 .. 9 :
                      /\ nba_logs_df[NthSelected(k)].stat = Digits[n + 1]
                      /\ data[k].stat = 2 * n
        /\ SortedByDate(nba_logs_df) => SortedByDate(data)

\* a sorted log of two days, both handed over with different values
C8_Witness ==
    /\ ts = "drawn"
    /\ SortedByDate(nba_logs_df)
    /\ Len(data) = 2
    /\ data[1].Date < data[2].Date
    /\ data[1].stat # data[2].stat

\* the k-th smallest of the observed values
KthSmallest(k) ==
    CHOOSE v \in Range(Vals) :
        /\ Cardinality({i \in DOMAIN Vals : Vals[i] < v}) < k
        /\ k <= Cardinality({i \in DOMAIN Vals : Vals[i] <= v})
ObservedMedian ==
    LET n == Len(Vals)
    IN IF n % 2 = 1 THEN KthSmallest((n + 1) \div 2)
       ELSE (KthSmallest(n \div 2) + KthSmallest(n \div 2 + 1)) \div 2
DefaultAsClaimed ==
    /\ min_value = 0
    /\ default_thresh = IF player_df = <<>> THEN 0 ELSE ObservedMedian
    /\ min_value <= default_thresh
    /\ default_thresh <= max_value

\* C9 as stated: the threshold input has lower bound 0, upper bound the
\* largest observed value of the filtered selection, default its median (0.0
\* when it is empty), and the default lies within the bounds.
C9_WidgetBounds ==
    Offered =>
        /\ DefaultAsClaimed
        /\ player_df # <<>> => max_value = SetMax(Range(Vals))

\* C9 amended: the upper bound is the largest observed value when that value
\* is greater than 0, and 100.0 when it is 0 or the selection is empty; lower
\* bound, default and the default lying within the bounds are as stated.
C9_WidgetBoundsFallback ==
    Offered =>
        /\ DefaultAsClaimed
        /\ max_value = IF player_df # <<>> /\ SetMax(Range(Vals)) > 0
                       THEN SetMax(Range(Vals))
                       ELSE FallbackMax

\* an even number of rows whose median falls between two observed values
C9_Witness ==
    /\ Offered
    /\ Len(player_df) = 2
    /\ default_thresh % 2 = 1
    /\ max_value = SetMax(Range(Vals))
    /\ default_thresh < max_value

\* C10: with the threshold at the largest observed value no row is green, the
\* rows of any other value are red and the ties gray; with the threshold at the
\* smallest observed value no row is red, the rows of any other value are
\* green; in the pie counts and in the bars alike.
C10_ExtremeThresholds ==
    Drawn =>
        /\ threshold = SetMax(Range(Vals)) =>
               /\ color_categories.green = 0
               /\ color_categories.red = RowsWhere(IsBelow)
               /\ color_categories.gray = RowsWhere(IsAt)
               /\ "green" \notin Range(colors) \cup Range(bar_colors)
               /\ \A i \in DOMAIN data :
                      bar_colors[i] = IF data[i].stat # threshold THEN "red" ELSE "gray"
        /\ threshold = SetMin(Range(Vals)) =>
               /\ color_categories.red = 0
               /\ color_categories.green = RowsWhere(IsAbove)
               /\ color_categories.gray = RowsWhere(IsAt)
               /\ "red" \notin Range(colors) \cup Range(bar_colors)
               /\ \A i \in DOMAIN data :
                      bar_colors[i] = IF data[i].stat # threshold THEN "green" ELSE "gray"

\* the threshold at the largest value, with a tie and a smaller value
C10_Witness ==
    /\ Drawn
    /\ threshold = SetMax(Range(Vals))
    /\ color_categories.red > 0
    /\ color_categories.gray > 1
====
